---- MODULE Spec2Model ----
(***************************************************************************)
(* Build metadata handle of coreos-assembler: cosalib/build.py (_Build)    *)
(* and cmdlib.py (write_json, sha256sum_file).                             *)
(*                                                                         *)
(* A build directory holds meta.json, commitmeta.json and the config       *)
(* provenance file; the image provenance file lives at a host-global path. *)
(* Each handle is one process (single-threaded caller) that constructs a   *)
(* _Build over the same build directory, caches the four documents, and    *)
(* reads, merges, flushes and reloads meta.  write_json is split into its   *)
(* system calls, since other processes run between them.  A handle also    *)
(* owns a scratch directory from construction to __del__, derives names    *)
(* from meta, and keeps a registry of the artifact files its production    *)
(* hook made.                                                              *)
(***************************************************************************)
EXTENDS Integers, Sequences, FiniteSets, TLC

\* ------------------------------------------------------------------ bounds
MaxMerges == 2
MaxFlushes == 1
MaxReloads == 1
MaxHookCalls == 2

\* ------------------------------------------------------------- the domains
Handles == {1, 2}
SlotOrder == <<"commit", "config", "image", "meta">>
SlotKeys == {"commit", "config", "image", "meta"}
\* a key outside the four recognized names
ArgKeys == SlotKeys \cup {"bogus"}

\* Python values: None, a dict (its items in insertion order), a str.
None == [kind |-> "none", items |-> <<>>, s |-> ""]
Dict(items) == [kind |-> "dict", items |-> items, s |-> ""]
Str(v) == [kind |-> "str", items |-> <<>>, s |-> v]

\* Dict keys.  "#1" is the Python int 1, every other key is the str itself.
IsStrKey(k) == k # "#1"
DictKeys(items) == {items[i][1] : i \in DOMAIN items}
DictGet(items, k) == items[CHOOSE i \in DOMAIN items : items[i][1] = k][2]
\* d[k] = v : an existing key keeps its place, a new one goes last
DictPut(items, k, v) ==
    IF k \in DictKeys(items)
    THEN [i \in DOMAIN items |-> IF items[i][1] = k THEN <<k, v>> ELSE items[i]]
    ELSE Append(items, <<k, v>>)
RECURSIVE DictUpdate(_, _)
DictUpdate(items, upd) ==
    IF upd = <<>> THEN items
    ELSE DictUpdate(DictPut(items, Head(upd)[1], Head(upd)[2]), Tail(upd))
\* Python's == on dicts: same keys, same values, order irrelevant
DictEq(a, b) ==
    /\ DictKeys(a) = DictKeys(b)
    /\ \A k \in DictKeys(a) : DictGet(a, k) = DictGet(b, k)

\* ------------------------------------------------------------------- JSON
\* A file's text is a sequence of tokens: "{", one token per member, "}".
TokOpen == <<"{", "">>
TokClose == <<"}", "">>
TokNull == <<"null", "">>
Brackets == {TokOpen, TokClose, TokNull}

\* json encodes a non-str key by its str()
json_key(k) == IF k = "#1" THEN "1" ELSE k
json_dumps(val) ==
    IF val.kind = "none" THEN <<TokNull>>
    ELSE <<TokOpen>>
         \o [i \in DOMAIN val.items |-> <<json_key(val.items[i][1]), val.items[i][2]>>]
         \o <<TokClose>>
\* json.load: the text must be one complete value; a repeated member name
\* keeps its first place and its last value
json_loads(data) ==
    IF data = <<TokNull>> THEN [ok |-> TRUE, val |-> None]
    ELSE IF /\ Len(data) >= 2
            /\ data[1] = TokOpen
            /\ data[Len(data)] = TokClose
            /\ \A i \in 2..(Len(data) - 1) : data[i] \notin Brackets
         THEN [ok |-> TRUE,
               val |-> Dict(DictUpdate(<<>>, SubSeq(data, 2, Len(data) - 1)))]
         ELSE [ok |-> FALSE, val |-> None]

\* ------------------------------------------------------------------ files
NoFile == [exists |-> FALSE, data |-> <<>>, mode |-> "none"]
File(data, mode) == [exists |-> TRUE, data |-> data, mode |-> mode]

\* load_json(path): open and parse; a missing or unparsable file raises
load_json(f) ==
    IF f.exists THEN json_loads(f.data) ELSE [ok |-> FALSE, val |-> None]

\* _Build.__file: the path of each document
BuildFile(var) ==
    CASE var = "commit" -> "builddir/commitmeta.json"
      [] var = "config" -> "builddir/coreos-assembler-config-git.json"
      [] var = "image" -> "/cosa/coreos-assembler-git.json"
      [] var = "meta" -> "builddir/meta.json"
Paths == {BuildFile(k) : k \in SlotKeys}

\* a flush aimed at the wrong document
MetaWritePath_commit == BuildFile("commit")

\* the path meta_write hands to write_json
MetaWritePath == BuildFile("meta")


\* -------------------------------------------------------------- exceptions
NoErr == [kind |-> "none", msg |-> ""]
Err(kind, msg) == [kind |-> kind, msg |-> msg]

\* ------------------------------------------------------------- input sets
\* meta_append arguments: overwrite a field, add a field, a non-str key
UpdateDocs == { <<<<"name", "y">>>>, <<<<"ref", "r">>>>, <<<<"#1", "z">>>> }
\* get_meta_key arguments: a mutable and a read-only document, an unknown
\* key; a field that is there and one that is not
ProbedKeys == {"meta", "commit", "bogus"}
Fields == {"name", "absent"}
\* what the files can hold when a handle is constructed
GoodMeta == File(json_dumps(Dict(<<<<"name", "x">>>>)), "0644")
GoodDoc == File(json_dumps(Dict(<<<<"ref", "c">>>>)), "0644")
NullDoc == File(<<TokNull>>, "0644")
InitMetaFiles == {GoodMeta, NullDoc, NoFile, File(<<TokOpen>>, "0644")}
InitDocFiles == {GoodDoc, NullDoc, NoFile}
\* A field whose JSON value is an object: the value "@images" stands for the
\* mapping NestedItems("@images"); every other value is a str.
NestedValues == {"@images"}
NestedItems(v) == <<<<"qemu", "fcos-qemu.qcow2">>>>
\* get_sub_obj arguments: obj is a document key or the already resolved meta
\* document (MetaDoc); key names a nested field, a str field, no field
MetaDoc == "<meta>"
SubObjs == {"meta", "bogus", MetaDoc}
SubKeys == {"images", "name", "absent"}
Subs == {"qemu", "absent"}
\* artifact file names in the build directory
ImageNames == {"img.qcow2"}
NoName == "None"
\* another file of the build directory, there from the start
SideFiles == {"extra.raw"}
\* the bytes of each file of the build directory
FileBytes(name) == IF name \in ImageNames THEN <<1, 2, 3>> ELSE <<4>>
\* get_artifact_meta arguments: fname omitted, the image, another file
FnameArgs == {NoName} \cup ImageNames \cup SideFiles

\* What one call of the production hook _build_artifacts may do; the concrete
\* build kind supplies it.  The base class's own hook only raises.  A hook
\* registers the image (registers), another file (extra), both or nothing.
HookOutcomes == [raises : BOOLEAN, creates : BOOLEAN, registers : BOOLEAN, extra : BOOLEAN]
NoHook == [raises |-> FALSE, creates |-> FALSE, registers |-> FALSE, extra |-> FALSE]

\* A generator object: not started ("created"), suspended at the yield
\* ("running"), finished ("done") or ended by an exception ("failed").  used
\* is the dict size its dict iterator noted, pos the entries it has passed,
\* out what it has yielded; snap records the registry as it was at the call.
NoGen == [state |-> "none", used |-> 0, pos |-> 0, out |-> <<>>, snap |-> <<>>]

VARIABLES
    indexed,      \* the Build Index knows the requested build
    files,        \* the four document files, by path
    owner,        \* by path: the handle whose still-open temporary file is the inode
                  \* now at that path (0: none)
    built,        \* artifact files present in the build directory
    status,       \* per handle: "new", "live" (__init__ returned), "failed" (__init__ raised)
    build_json,   \* self._build_json
    loads,        \* per handle and slot: how often the document was read from disk
    inst,         \* per handle and slot: which read produced the cached instance
    found_files,  \* self._found_files (names, in insertion order)
    image_name,   \* self._image_name
    hookCalls,    \* per handle: calls of _build_artifacts
    pc,           \* per handle: position inside write_json
    tmp,          \* per handle: the NamedTemporaryFile on disk
    buf,          \* per handle: text written to f but still in its userspace buffer
    op,           \* per handle: the last operation called, with its arguments
    ret,          \* per handle: what it returned
    err,          \* per handle: what it raised
    hist,         \* per handle: the merge/flush/reload sequence under way
    lastRename,   \* the last os.rename onto meta.json: who, with which document,
                  \* over whose open file
    tmpdir,       \* self._tmpdir ("": the attribute is not set)
    tmpdirs,      \* the directories that exist under the temp root
    workdir,      \* the working directory tree exists
    hooked,       \* per handle: what the last call of the production hook did
    gen,          \* per handle: the generator the last get_artifacts call returned
    merges, flushes, reloads

vars == <<indexed, files, owner, built, status, build_json, loads, inst,
          found_files, image_name, hookCalls, pc, tmp, buf, op, ret, err, hist,
          lastRename, tmpdir, tmpdirs, workdir, hooked, gen,
          merges, flushes, reloads>>

\* the scratch directory and the working directory
scratchVars == <<tmpdir, tmpdirs, workdir>>

NoRet == [val |-> None, inst |-> 0]
CallSub(name, obj, key, sub) == [name |-> name, obj |-> obj, key |-> key, sub |-> sub]
Call(name, obj, key) == CallSub(name, obj, key, "")
NoHist == [stage |-> "none", disk0 |-> <<>>, mem0 |-> <<>>, upd |-> <<>>]
EmptySlots == [k \in SlotKeys |-> None]
ZeroSlots == [k \in SlotKeys |-> 0]

\* the four document files, by path
DocFiles(c, g, i, m) ==
    [p \in Paths |->
        CASE p = BuildFile("commit") -> c
          [] p = BuildFile("config") -> g
          [] p = BuildFile("image") -> i
          [] p = BuildFile("meta") -> m]

\* no handle constructed yet
InitHandles ==
    /\ owner = [p \in Paths |-> 0]
    /\ status = [h \in Handles |-> "new"]
    /\ build_json = [h \in Handles |-> EmptySlots]
    /\ loads = [h \in Handles |-> ZeroSlots]
    /\ inst = [h \in Handles |-> ZeroSlots]
    /\ found_files = [h \in Handles |-> <<>>]
    /\ image_name = [h \in Handles |-> NoName]
    /\ hookCalls = [h \in Handles |-> 0]
    /\ pc = [h \in Handles |-> "idle"]
    /\ tmp = [h \in Handles |-> NoFile]
    /\ buf = [h \in Handles |-> <<>>]
    /\ op = [h \in Handles |-> Call("none", "", "")]
    /\ ret = [h \in Handles |-> NoRet]
    /\ err = [h \in Handles |-> NoErr]
    /\ hist = [h \in Handles |-> NoHist]
    /\ lastRename = [by |-> 0, data |-> None, over |-> 0]
    /\ tmpdir = [h \in Handles |-> ""]
    /\ tmpdirs = {}
    /\ workdir = TRUE
    /\ hooked = [h \in Handles |-> NoHook]
    /\ gen = [h \in Handles |-> NoGen]
    /\ merges = [h \in Handles |-> 0]
    /\ flushes = [h \in Handles |-> 0]
    /\ reloads = [h \in Handles |-> 0]

Init ==
    /\ indexed \in BOOLEAN
    /\ \E c \in InitDocFiles, g \in InitDocFiles, i \in InitDocFiles, m \in InitMetaFiles :
          files = DocFiles(c, g, i, m)
    /\ built \in SUBSET ImageNames
    /\ InitHandles

\* ------------------------------------------------------- the cached slots
\* A handle's cache: c = [json, loads, inst].
Cache(h) == [json |-> build_json[h], loads |-> loads[h], inst |-> inst[h]]

\* __get_json(name): read the file of the slot from disk
get_json(c, k) ==
    [r |-> load_json(files[BuildFile(k)]),
     c |-> [c EXCEPT !.loads[k] = @ + 1]]

\* self._build_json[k] = <what __get_json returned>; a failed read raises
\* before the assignment
Store(k, g) ==
    IF g.r.ok
    THEN [ok |-> TRUE,
          c |-> [g.c EXCEPT !.json[k] = g.r.val, !.inst[k] = g.c.loads[k]]]
    ELSE [ok |-> FALSE, c |-> g.c]

\* a property that reads the file on every access
Property_nocache(c, k) == Store(k, get_json(c, k))

\* the properties commit, config, image, meta: load when the slot is None
Property(c, k) ==
    IF c.json[k] # None THEN [ok |-> TRUE, c |-> c]
    ELSE Store(k, get_json(c, k))


\* ------------------------------------------------------------- __init__
\* a constructor without the None checks
InitInvalid_never(v) == FALSE

\* `if self.<doc> is None`
InitInvalid(v) == v = None

\* the raise under that test: `"%s %s" % self.__file(k), emsg` formats a
\* two-conversion string with the path alone, so building the message raises
\* TypeError and BuildError is never constructed
InitRaise(path) == Err("TypeError", "not enough arguments for format string")

\* builds.has(build): the Build Index knows the build
BuildsHas == indexed

\* get_obj: the lookup table evaluates all four properties, in order
RECURSIVE ForceAll(_, _)
ForceNext(p, i) ==
    IF p.ok THEN ForceAll(p.c, i + 1)
    ELSE [ok |-> FALSE, c |-> p.c, k |-> SlotOrder[i]]
ForceAll(c, i) ==
    IF i > Len(SlotOrder) THEN [ok |-> TRUE, c |-> c, k |-> "none"]
    ELSE ForceNext(Property(c, SlotOrder[i]), i)

\* get_obj, `return lookup[key]` for a recognized key: the cached instance
get_obj_hit(c, key) ==
    [c |-> c, ret |-> [val |-> c.json[key], inst |-> c.inst[key]], err |-> NoErr]

\* a lookup that answers None for a key it does not know (dict.get)
get_obj_miss_none(c, key) == [c |-> c, ret |-> NoRet, err |-> NoErr]

\* get_obj, the except branch: any failed lookup becomes BuildError
get_obj_miss(c, key) ==
    [c |-> c, ret |-> NoRet, err |-> Err("BuildError", "invalid key")]

get_obj_lookup(f, key) ==
    IF ~f.ok
    THEN [c |-> f.c, ret |-> NoRet, err |-> Err("LoadError", BuildFile(f.k))]
    ELSE IF key \in SlotKeys THEN get_obj_hit(f.c, key)
    ELSE get_obj_miss(f.c, key)

get_obj(c, key) == get_obj_lookup(ForceAll(c, 1), key)

\* get_meta_key, the except KeyError branch: warn and return None
get_meta_key_miss(c, key) == [c |-> c, ret |-> NoRet, err |-> NoErr]

\* get_meta_key: only KeyError is caught, what get_obj raises propagates
\* a lookup that answers with the field's name instead of its value
get_meta_key_hit_name(data, key) == [val |-> Str(key), inst |-> 0]

\* get_meta_key, `return data[key]` for a field that is there
get_meta_key_hit(data, key) == [val |-> Str(DictGet(data.items, key)), inst |-> 0]

get_meta_key_data(r, key) ==
    IF r.err # NoErr THEN r
    ELSE IF r.ret.val.kind # "dict"
    THEN [c |-> r.c, ret |-> NoRet, err |-> Err("TypeError", "not subscriptable")]
    ELSE IF key \in DictKeys(r.ret.val.items)
    THEN [c |-> r.c, ret |-> get_meta_key_hit(r.ret.val, key), err |-> NoErr]
    ELSE get_meta_key_miss(r.c, key)

get_meta_key(c, obj, key) == get_meta_key_data(get_obj(c, obj), key)

\* the four `is None` checks, in order; a failed load raises out of the property
RECURSIVE InitCheck(_, _)
InitCheckOne(p, i) ==
    IF ~p.ok THEN [c |-> p.c, err |-> Err("LoadError", BuildFile(SlotOrder[i]))]
    ELSE IF InitInvalid(p.c.json[SlotOrder[i]])
    THEN [c |-> p.c, err |-> InitRaise(BuildFile(SlotOrder[i]))]
    ELSE InitCheck(p.c, i + 1)
InitCheck(c, i) ==
    IF i > Len(SlotOrder) THEN [c |-> c, err |-> NoErr]
    ELSE InitCheckOne(Property(c, SlotOrder[i]), i)

\* _Build.__init__: index lookup, empty slots, the four checks, the log line
\* (summary, build_name, basearch, build_id all go through the meta slot)
NewCache == [json |-> EmptySlots, loads |-> ZeroSlots, inst |-> ZeroSlots]
InitLog(g) == [c |-> g.c, err |-> g.err]
InitChecked(v) ==
    IF v.err # NoErr THEN v
    ELSE InitLog(get_meta_key(v.c, "meta", "summary"))
init ==
    IF ~BuildsHas
    THEN [c |-> NewCache, err |-> Err("BuildError", "Build was not found in builds.json")]
    ELSE InitChecked(InitCheck(NewCache, 1))

SetCache(h, c) ==
    /\ build_json' = [build_json EXCEPT ![h] = c.json]
    /\ loads' = [loads EXCEPT ![h] = c.loads]
    /\ inst' = [inst EXCEPT ![h] = c.inst]

Result(h, call, r, e) ==
    /\ op' = [op EXCEPT ![h] = call]
    /\ ret' = [ret EXCEPT ![h] = r]
    /\ err' = [err EXCEPT ![h] = e]

Idle(h) == status[h] = "live" /\ pc[h] = "idle"

\* a mkdtemp that hands out one fixed name
mkdtemp_fixed(existing) == {"build_tmpd1"}

\* tempfile.mkdtemp(prefix="build_tmpd"): creates a directory under a name
\* that does not exist yet
ScratchNames == {"build_tmpd1", "build_tmpd2"}
mkdtemp(existing) == ScratchNames \ existing

Construct(h) ==
    /\ status[h] = "new"
    /\ LET r == init
       IN  /\ SetCache(h, r.c)
           /\ status' = [status EXCEPT ![h] = IF r.err = NoErr THEN "live" ELSE "failed"]
           /\ image_name' = [image_name EXCEPT ![h] = NoName]
           /\ found_files' = [found_files EXCEPT ![h] = <<>>]
           /\ Result(h, Call("__init__", "", ""), NoRet, r.err)
    /\ IF BuildsHas
       THEN \E d \in mkdtemp(tmpdirs) :
               /\ tmpdir' = [tmpdir EXCEPT ![h] = d]
               /\ tmpdirs' = tmpdirs \cup {d}
       ELSE UNCHANGED <<tmpdir, tmpdirs>>
    /\ UNCHANGED <<gen, hooked, workdir, lastRename, indexed, files, owner, built,
                   hookCalls, pc, tmp, buf, hist, merges, flushes, reloads>>

\* __del__: shutil.rmtree(self._tmpdir); a failure is re-raised as Exception,
\* and with _tmpdir unset (the index lookup failed before it was assigned)
\* building that message raises AttributeError again
Del(h) ==
    /\ status[h] \in {"live", "failed"}
    /\ pc[h] = "idle"
    /\ status' = [status EXCEPT ![h] = "dead"]
    /\ tmpdirs' = tmpdirs \ {tmpdir[h]}
    /\ Result(h, Call("__del__", "", ""), NoRet,
              IF tmpdir[h] = "" THEN Err("AttributeError", "_tmpdir")
              ELSE IF tmpdir[h] \notin tmpdirs
              THEN Err("Exception", "failed to remove temporary directory")
              ELSE NoErr)
    /\ UNCHANGED <<gen, hooked, workdir, tmpdir, lastRename, indexed, files, owner,
                   built, build_json, loads, inst, found_files, image_name, hookCalls, pc,
                   tmp, buf, hist, merges, flushes, reloads>>

\* clean: shutil.rmtree(self._workdir).  The build directory and the temp root
\* lie outside the working directory tree.
Clean(h) ==
    /\ Idle(h)
    /\ workdir' = FALSE
    /\ Result(h, Call("clean", "", ""), NoRet,
              IF workdir THEN NoErr ELSE Err("FileNotFoundError", "workdir"))
    /\ UNCHANGED <<gen, hooked, tmpdirs, tmpdir, lastRename, indexed, files, owner,
                   built, status, build_json, loads, inst, found_files, image_name,
                   hookCalls, pc, tmp, buf, hist, merges, flushes, reloads>>

\* ------------------------------------------------------------- the lookups
GetObj(h, key) ==
    /\ Idle(h)
    /\ LET r == get_obj(Cache(h), key)
       IN  /\ SetCache(h, r.c)
           /\ Result(h, Call("get_obj", key, ""), r.ret, r.err)
    /\ UNCHANGED <<gen, hooked, scratchVars, lastRename,
                   indexed, files, owner, built, status, found_files, image_name,
                   hookCalls, pc, tmp, buf, hist, merges, flushes, reloads>>

GetMetaKey(h, obj, key) ==
    /\ Idle(h)
    /\ LET r == get_meta_key(Cache(h), obj, key)
       IN  /\ SetCache(h, r.c)
           /\ Result(h, Call("get_meta_key", obj, key), r.ret, r.err)
    /\ UNCHANGED <<gen, hooked, scratchVars, lastRename,
                   indexed, files, owner, built, status, found_files, image_name,
                   hookCalls, pc, tmp, buf, hist, merges, flushes, reloads>>

\* get_sub_obj, the except KeyError branch: log the object, return None
get_sub_obj_miss(c) == [c |-> c, ret |-> NoRet, err |-> NoErr]

\* obj[key][sub] with obj[key] = v: a str indexed by a str raises TypeError,
\* which `except KeyError` does not catch
get_sub_obj_sub(c, v, sub) ==
    IF v \notin NestedValues
    THEN [c |-> c, ret |-> NoRet,
          err |-> Err("TypeError", "string indices must be integers")]
    ELSE IF sub \in DictKeys(NestedItems(v))
    THEN [c |-> c, ret |-> [val |-> Str(DictGet(NestedItems(v), sub)), inst |-> 0],
          err |-> NoErr]
    ELSE get_sub_obj_miss(c)

\* get_sub_obj on a resolved document: `try: return obj[key][sub]`
get_sub_obj_doc(c, doc, key, sub) ==
    IF key \in DictKeys(doc.items)
    THEN get_sub_obj_sub(c, DictGet(doc.items, key), sub)
    ELSE get_sub_obj_miss(c)

\* get_sub_obj on a str: get_obj runs outside the try, what it raises propagates
get_sub_obj_resolved(r, key, sub) ==
    IF r.err # NoErr THEN r
    ELSE get_sub_obj_doc(r.c, r.ret.val, key, sub)

get_sub_obj(c, obj, key, sub) ==
    IF obj = MetaDoc THEN get_sub_obj_doc(c, c.json["meta"], key, sub)
    ELSE get_sub_obj_resolved(get_obj(c, obj), key, sub)

GetSubObj(h, obj, key, sub) ==
    /\ Idle(h)
    /\ LET r == get_sub_obj(Cache(h), obj, key, sub)
       IN  /\ SetCache(h, r.c)
           /\ Result(h, CallSub("get_sub_obj", obj, key, sub), r.ret, r.err)
    /\ UNCHANGED <<gen, hooked, scratchVars, lastRename,
                   indexed, files, owner, built, status, found_files, image_name,
                   hookCalls, pc, tmp, buf, hist, merges, flushes, reloads>>


\* ------------------------------------------------------ derived accessors
\* BASEARCH = get_basearch(): the architecture of the machine
BASEARCH == "x86_64"
\* self.platform: an attribute the concrete build kind supplies
platform == "qemu"

\* str(x) and the f-string conversion of x: None reads "None"
py_format(v) == IF v = None THEN "None" ELSE v.s
py_str(v) == Str(py_format(v))

\* self.meta.get(key, default), p being what the meta property gave
meta_get(p, key, default) ==
    IF ~p.ok
    THEN [c |-> p.c, ret |-> NoRet, err |-> Err("LoadError", BuildFile("meta"))]
    ELSE [c |-> p.c,
          ret |-> [val |-> IF key \in DictKeys(p.c.json["meta"].items)
                           THEN Str(DictGet(p.c.json["meta"].items, key))
                           ELSE default,
                   inst |-> 0],
          err |-> NoErr]

build_id(c) == get_meta_key(c, "meta", "buildid")

\* build_name: str() around the lookup
build_name_str(r) ==
    IF r.err # NoErr THEN r
    ELSE [c |-> r.c, ret |-> [val |-> py_str(r.ret.val), inst |-> 0], err |-> NoErr]
build_name(c) == build_name_str(get_meta_key(c, "meta", "name"))

summary(c) == get_meta_key(c, "meta", "summary")

ostree_commit(c) == meta_get(Property(c, "meta"), "ostree-commit", None)

\* ckey: "coreos-assembler.%s" % var
ckey(var) == "coreos-assembler." \o var

\* basearch: the key handed to ckey already carries the prefix
basearch(c) ==
    meta_get(Property(c, "meta"), ckey("coreos-assembler.basearch"), Str(BASEARCH))

\* f'{build_name}-{build_id}-{platform}.{basearch}'
image_name_format(n, i, a) ==
    IF n.err # NoErr THEN n
    ELSE IF i.err # NoErr THEN i
    ELSE IF a.err # NoErr THEN a
    ELSE [c |-> a.c,
          ret |-> [val |-> Str(py_format(n.ret.val) \o "-" \o py_format(i.ret.val)
                              \o "-" \o platform \o "." \o py_format(a.ret.val)),
                   inst |-> 0],
          err |-> NoErr]

\* image_name_base: the assigned image name when there is one
image_name_base(c, name) ==
    IF name # NoName
    THEN [c |-> c, ret |-> [val |-> Str(name), inst |-> 0], err |-> NoErr]
    ELSE image_name_format(build_name(c), build_id(c), basearch(c))

\* reading a property of the handle
ReadProperty(h, name, r) ==
    /\ Idle(h)
    /\ SetCache(h, r.c)
    /\ Result(h, Call(name, "", ""), r.ret, r.err)
    /\ UNCHANGED <<gen, hooked, scratchVars, lastRename,
                   indexed, files, owner, built,
                   status, found_files, image_name, hookCalls, pc, tmp, buf, hist,
                   merges, flushes, reloads>>

BuildId(h) == ReadProperty(h, "build_id", build_id(Cache(h)))
BuildName(h) == ReadProperty(h, "build_name", build_name(Cache(h)))
Summary(h) == ReadProperty(h, "summary", summary(Cache(h)))
OstreeCommit(h) == ReadProperty(h, "ostree_commit", ostree_commit(Cache(h)))
Basearch(h) == ReadProperty(h, "basearch", basearch(Cache(h)))
ImageNameBase(h) ==
    ReadProperty(h, "image_name_base", image_name_base(Cache(h), image_name[h]))


\* ------------------------------------------------------ merge, flush, reload
DiskMeta == load_json(files[BuildFile("meta")])

\* a merge in which the fields already present win
meta_append_keep(meta, update_dict) == Dict(DictUpdate(update_dict, meta.items))

\* meta_append: dict.update on the cached meta instance, in memory only
meta_append(meta, update_dict) == Dict(DictUpdate(meta.items, update_dict))

MetaAppend(h, update_dict) ==
    /\ Idle(h)
    /\ merges[h] < MaxMerges
    /\ merges' = [merges EXCEPT ![h] = @ + 1]
    /\ IF build_json[h]["meta"].kind = "dict"
       THEN /\ build_json' = [build_json EXCEPT
                   ![h]["meta"] = meta_append(build_json[h]["meta"], update_dict)]
            /\ Result(h, Call("meta_append", "", ""), NoRet, NoErr)
            /\ hist' = [hist EXCEPT ![h] =
                   IF DiskMeta.ok
                   THEN [stage |-> "merged", disk0 |-> DiskMeta.val.items,
                         mem0 |-> build_json[h]["meta"].items, upd |-> update_dict]
                   ELSE NoHist]
       ELSE /\ Result(h, Call("meta_append", "", ""), NoRet, Err("AttributeError", "update"))
            /\ UNCHANGED <<build_json, hist>>
    /\ UNCHANGED <<gen, hooked, scratchVars, lastRename,
                   indexed, files, owner, built, status, loads, inst, found_files,
                   image_name, hookCalls, pc, tmp, buf, flushes, reloads>>

\* write_json line 1-2: NamedTemporaryFile(mode='w', dir=dn, delete=False)
\* creates an empty sibling file, mode 0600
FlushOpen(h) ==
    /\ Idle(h)
    /\ flushes[h] < MaxFlushes
    /\ tmp' = [tmp EXCEPT ![h] = File(<<>>, "0600")]
    /\ buf' = [buf EXCEPT ![h] = <<>>]
    /\ pc' = [pc EXCEPT ![h] = "opened"]
    /\ Result(h, Call("meta_write", "", ""), NoRet, NoErr)
    /\ hist' = [hist EXCEPT ![h] = IF @.stage = "merged" THEN @ ELSE NoHist]
    /\ UNCHANGED <<gen, hooked, scratchVars, lastRename,
                   indexed, files, owner, built, status, build_json, loads, inst,
                   found_files, image_name, hookCalls, merges, flushes, reloads>>

\* How much of the text json.dump wrote has left f's userspace buffer when
\* json.dump returns: the buffer is written out only as it fills, so any
\* prefix, none of it for a small document
Drained(text) == 0..Len(text)

\* json.dump(data, f, indent=4): no flush follows
FlushDump(h) ==
    /\ status[h] = "live"
    /\ pc[h] = "opened"
    /\ LET text == json_dumps(build_json[h]["meta"])
       IN  \E n \in Drained(text) :
              /\ tmp' = [tmp EXCEPT ![h].data = SubSeq(text, 1, n)]
              /\ buf' = [buf EXCEPT ![h] = SubSeq(text, n + 1, Len(text))]
    /\ pc' = [pc EXCEPT ![h] = "dumped"]
    /\ UNCHANGED <<gen, hooked, scratchVars, lastRename,
                   indexed, files, owner, built, status, build_json, loads, inst,
                   found_files, image_name, hookCalls, op, ret, err, hist,
                   merges, flushes, reloads>>

\* os.fchmod(f.file.fileno(), 0o644)
FlushChmod(h) ==
    /\ status[h] = "live"
    /\ pc[h] = "dumped"
    /\ tmp' = [tmp EXCEPT ![h].mode = "0644"]
    /\ pc' = [pc EXCEPT ![h] = "chmoded"]
    /\ UNCHANGED <<gen, hooked, scratchVars, lastRename,
                   indexed, files, owner, built, status, build_json, loads, inst,
                   found_files, image_name, hookCalls, buf, op, ret, err, hist,
                   merges, flushes, reloads>>

\* os.rename(f.name, path): the temporary inode replaces the one at path;
\* f is still open on it
FlushRename(h) ==
    /\ status[h] = "live"
    /\ pc[h] = "chmoded"
    /\ files' = [files EXCEPT ![MetaWritePath] = tmp[h]]
    /\ owner' = [owner EXCEPT ![MetaWritePath] = h]
    /\ tmp' = [tmp EXCEPT ![h] = NoFile]
    /\ pc' = [pc EXCEPT ![h] = "renamed"]
    /\ lastRename' = [by |-> h, data |-> build_json[h]["meta"],
                      over |-> owner[MetaWritePath]]
    /\ hist' = [g \in Handles |-> IF g = h THEN hist[g] ELSE NoHist]
    /\ UNCHANGED <<gen, hooked, scratchVars,
                   indexed, built, status, build_json, loads, inst, found_files,
                   image_name, hookCalls, buf, op, ret, err, merges, flushes, reloads>>

\* a close that writes to whatever file is at the path by now
HoldsInode_path(h, p) == TRUE

\* f is open on the inode that is now at path p (f writes to its inode, not
\* to a path)
HoldsInode(h, p) == owner[p] = h

\* write_json returns: f is dropped, which closes it and writes what was
\* still buffered to its inode, wherever that inode is linked by now
FlushReturn(h) ==
    /\ status[h] = "live"
    /\ pc[h] = "renamed"
    /\ files' = [p \in Paths |->
                   IF HoldsInode(h, p)
                   THEN [files[p] EXCEPT !.data = @ \o buf[h]]
                   ELSE files[p]]
    /\ owner' = [p \in Paths |-> IF owner[p] = h THEN 0 ELSE owner[p]]
    /\ buf' = [buf EXCEPT ![h] = <<>>]
    /\ pc' = [pc EXCEPT ![h] = "idle"]
    /\ flushes' = [flushes EXCEPT ![h] = @ + 1]
    /\ hist' = [g \in Handles |->
                  IF g = h
                  THEN IF hist[g].stage = "merged"
                       THEN [hist[g] EXCEPT !.stage = "flushed"]
                       ELSE NoHist
                  ELSE IF files'[BuildFile("meta")] = files[BuildFile("meta")]
                       THEN hist[g] ELSE NoHist]
    /\ UNCHANGED <<gen, hooked, scratchVars, lastRename,
                   indexed, built, status, build_json, loads, inst, found_files,
                   image_name, hookCalls, tmp, op, ret, err, merges, reloads>>

\* refresh_meta: self._build_json["meta"] = self.__get_json("meta")
\* a reload that goes through the caching property and so re-reads nothing
refresh_meta_cached(c) == [c |-> Property(c, "meta").c, err |-> NoErr]

refresh_meta_set(p) ==
    [c |-> p.c,
     err |-> IF p.ok THEN NoErr ELSE Err("LoadError", BuildFile("meta"))]
refresh_meta(c) == refresh_meta_set(Store("meta", get_json(c, "meta")))

RefreshMeta(h) ==
    /\ Idle(h)
    /\ reloads[h] < MaxReloads
    /\ reloads' = [reloads EXCEPT ![h] = @ + 1]
    /\ LET r == refresh_meta(Cache(h))
       IN  /\ SetCache(h, r.c)
           /\ Result(h, Call("refresh_meta", "", ""), NoRet, r.err)
           /\ hist' = [hist EXCEPT ![h] =
                  IF r.err # NoErr THEN NoHist
                  ELSE IF @.stage = "flushed" THEN [@ EXCEPT !.stage = "reloaded"]
                  ELSE IF @.stage = "merged" THEN [@ EXCEPT !.stage = "dropped"]
                  ELSE NoHist]
    /\ UNCHANGED <<gen, hooked, scratchVars, lastRename,
                   indexed, files, owner, built, status, found_files, image_name,
                   hookCalls, pc, tmp, buf, merges, flushes>>


\* ---------------------------------------------------------------- artifacts
\* image_name setter
SetImageName(h, val) ==
    /\ Idle(h)
    /\ image_name' = [image_name EXCEPT ![h] = val]
    /\ Result(h, Call("image_name", "", ""), NoRet, NoErr)
    /\ UNCHANGED <<gen, hooked, scratchVars, lastRename,
                   indexed, files, owner, built, status, build_json, loads, inst,
                   found_files, hookCalls, pc, tmp, buf, hist, merges, flushes, reloads>>

\* an existence test that never finds the file
have_artifact_never(h) == FALSE

\* an existence test that remembers an earlier attempt
have_artifact_attempted(h) == image_name[h] \in built \/ hookCalls[h] > 0

\* have_artifact: os.path.exists(image_path), image_path = build_dir/image_name
have_artifact(h) == image_name[h] \in built

\* os.path.exists / os.stat / open on build_dir/name
PathExists(name) == name \in built \cup SideFiles

\* sha256sum_file: read the file in chunks (ChunkLen stands for 128 KiB),
\* feed each to the hash, return the digest of all that was fed.  The digest
\* is kept symbolic: sha256 of a byte string, distinct for distinct strings.
ChunkLen == 2
RECURSIVE sha256_update(_, _)
sha256_update(fed, rest) ==
    IF rest = <<>> THEN fed
    ELSE IF Len(rest) <= ChunkLen THEN fed \o rest
    ELSE sha256_update(fed \o SubSeq(rest, 1, ChunkLen),
                       SubSeq(rest, ChunkLen + 1, Len(rest)))
hexdigest(fed) == <<"sha256", fed>>
sha256sum_file(name) == hexdigest(sha256_update(<<>>, FileBytes(name)))

\* get_artifact_meta, the returned record
artifact_record(fname, size) ==
    [val |-> Dict(<< <<"path", fname>>, <<"sha256sum", sha256sum_file(fname)>>,
                     <<"size", size>> >>),
     inst |-> 0]

\* get_artifact_meta, from `if fname is None` on; fsize is already taken
get_artifact_meta_named(fname, fsize) ==
    IF PathExists(fname)
    THEN [ret |-> artifact_record(fname, fsize), err |-> NoErr]
    ELSE [ret |-> NoRet, err |-> Err("FileNotFoundError", fname)]

\* get_artifact_meta: the first line stats image_path, whatever fname is
get_artifact_meta(h, fname) ==
    IF image_name[h] = NoName
    THEN [ret |-> NoRet, err |-> Err("NotImplementedError", "image_name")]
    ELSE IF ~PathExists(image_name[h])
    THEN [ret |-> NoRet, err |-> Err("FileNotFoundError", image_name[h])]
    ELSE get_artifact_meta_named(IF fname = NoName THEN image_name[h] ELSE fname,
                                 Len(FileBytes(image_name[h])))

GetArtifactMeta(h, fname) ==
    /\ Idle(h)
    /\ Result(h, Call("get_artifact_meta", fname, ""),
              get_artifact_meta(h, fname).ret, get_artifact_meta(h, fname).err)
    /\ UNCHANGED <<gen, hooked, scratchVars, lastRename,
                   indexed, files, owner, built, status, build_json, loads, inst,
                   found_files, image_name, hookCalls, pc, tmp, buf, hist,
                   merges, flushes, reloads>>

\* self._found_files[name] = ... : a name already there keeps its place
Register(found, name) ==
    IF \E i \in DOMAIN found : found[i] = name THEN found ELSE Append(found, name)

\* _found_files after the hook
HookRegisters(found, name, o) ==
    IF o.registers /\ name # NoName
    THEN IF o.extra THEN Register(Register(found, name), "extra.raw")
         ELSE Register(found, name)
    ELSE IF o.extra THEN Register(found, "extra.raw")
    ELSE found

\* a wrapper that treats an empty registry as a failure
build_artifacts_fail(found) ==
    IF found = <<>> THEN Err("BuildError", "no files found") ELSE NoErr

\* build_artifacts after the hook returned: an empty registry only warns
build_artifacts_warn(found) == NoErr

\* build_artifacts: call the hook once; what the hook raises propagates
build_artifacts(h, o) ==
    /\ hookCalls[h] < MaxHookCalls
    /\ hookCalls' = [hookCalls EXCEPT ![h] = @ + 1]
    /\ hooked' = [hooked EXCEPT ![h] = o]
    /\ built' = IF o.creates /\ image_name[h] # NoName
                THEN built \cup {image_name[h]} ELSE built
    /\ found_files' = [found_files EXCEPT ![h] = HookRegisters(@, image_name[h], o)]
    /\ err' = [err EXCEPT ![h] =
           IF o.raises THEN Err("HookError", "_build_artifacts")
           ELSE build_artifacts_warn(found_files'[h])]

BuildArtifacts(h) ==
    /\ Idle(h)
    /\ \E o \in HookOutcomes : build_artifacts(h, o)
    /\ op' = [op EXCEPT ![h] = Call("build_artifacts", "", "")]
    /\ ret' = [ret EXCEPT ![h] = NoRet]
    /\ UNCHANGED <<gen, scratchVars, lastRename,
                   indexed, files, owner, status, build_json,
                   loads, inst, image_name, pc, tmp, buf, hist, merges, flushes, reloads>>

\* get_artifacts: a generator function; the call runs none of its body
get_artifacts(found) ==
    [state |-> "created", used |-> 0, pos |-> 0, out |-> <<>>, snap |-> found]

GetArtifacts(h) ==
    /\ Idle(h)
    /\ gen' = [gen EXCEPT ![h] = get_artifacts(found_files[h])]
    /\ Result(h, Call("get_artifacts", "", ""), NoRet, NoErr)
    /\ UNCHANGED <<hooked, scratchVars, lastRename, indexed, files, owner, built, status,
                   build_json, loads, inst, found_files, image_name, hookCalls, pc,
                   tmp, buf, hist, merges, flushes, reloads>>

\* the first next(): `for name in self._found_files` makes the dict iterator
\* over the live dict, which notes the dict's size now
gen_iter(g, found) == [g EXCEPT !.state = "running", !.used = Len(found)]

\* the dict iterator's next: a dict whose size changed raises RuntimeError,
\* else the next entry is yielded, else the loop and the generator end
gen_step(g, found) ==
    IF Len(found) # g.used THEN [g EXCEPT !.state = "failed"]
    ELSE IF g.pos < Len(found)
    THEN [g EXCEPT !.pos = @ + 1, !.out = Append(@, found[g.pos + 1])]
    ELSE [g EXCEPT !.state = "done"]

\* next() on the generator
gen_next(g, found) ==
    IF g.state = "created" THEN gen_step(gen_iter(g, found), found)
    ELSE gen_step(g, found)

GenNext(h) ==
    /\ Idle(h)
    /\ gen[h].state \in {"created", "running"}
    /\ gen' = [gen EXCEPT ![h] = gen_next(@, found_files[h])]
    /\ Result(h, Call("next", "", ""),
              IF gen'[h].state = "running"
              THEN [val |-> Str(gen'[h].out[Len(gen'[h].out)]), inst |-> 0]
              ELSE NoRet,
              IF gen'[h].state = "failed"
              THEN Err("RuntimeError", "dictionary changed size during iteration")
              ELSE IF gen'[h].state = "done" THEN Err("StopIteration", "")
              ELSE NoErr)
    /\ UNCHANGED <<hooked, scratchVars, lastRename, indexed, files, owner, built, status,
                   build_json, loads, inst, found_files, image_name, hookCalls, pc,
                   tmp, buf, hist, merges, flushes, reloads>>

\* ensure_built: `if not self.have_artifact: self.build_artifacts()`;
\* reading image_name while it is None raises NotImplementedError
EnsureBuilt(h) ==
    /\ Idle(h)
    /\ op' = [op EXCEPT ![h] = Call("ensure_built", "", "")]
    /\ ret' = [ret EXCEPT ![h] = NoRet]
    /\ IF image_name[h] = NoName
       THEN /\ err' = [err EXCEPT ![h] = Err("NotImplementedError", "image_name")]
            /\ UNCHANGED <<built, found_files, hookCalls, hooked>>
       ELSE IF have_artifact(h)
       THEN /\ err' = [err EXCEPT ![h] = NoErr]
            /\ UNCHANGED <<built, found_files, hookCalls, hooked>>
       ELSE \E o \in HookOutcomes : build_artifacts(h, o)
    /\ UNCHANGED <<gen, scratchVars, lastRename,
                   indexed, files, owner, status, build_json,
                   loads, inst, image_name, pc, tmp, buf, hist, merges, flushes, reloads>>

\* ------------------------------------------------------- the specifications
\* One caller drives one handle.
Caller == {1}

\* The metadata store: construction, lookups, merge, flush, reload.
Next ==
    \E h \in Caller :
        \/ Construct(h)
        \/ \E key \in ArgKeys : GetObj(h, key)
        \/ \E obj \in ProbedKeys, key \in Fields : GetMetaKey(h, obj, key)
        \/ \E u \in UpdateDocs : MetaAppend(h, u)
        \/ FlushOpen(h)
        \/ FlushDump(h)
        \/ FlushChmod(h)
        \/ FlushRename(h)
        \/ FlushReturn(h)
        \/ RefreshMeta(h)

Spec == Init /\ [][Next]_vars

\* The artifact catalog: construction, image naming, build and ensure_built.
NextCatalog ==
    \E h \in Caller :
        \/ Construct(h)
        \/ \E n \in ImageNames : SetImageName(h, n)
        \/ BuildArtifacts(h)
        \/ EnsureBuilt(h)
        \/ \E fname \in FnameArgs : GetArtifactMeta(h, fname)

SpecCatalog == Init /\ [][NextCatalog]_vars

\* The registry and its iteration: the hook fills the registry while
\* sequences obtained from get_artifacts are being consumed.
NextArtifacts ==
    \E h \in Caller :
        \/ Construct(h)
        \/ \E n \in ImageNames : SetImageName(h, n)
        \/ BuildArtifacts(h)
        \/ GetArtifacts(h)
        \/ GenNext(h)

SpecArtifacts == Init /\ [][NextArtifacts]_vars

\* The lookups and derived accessors, over meta documents with and without
\* the fields they read.
FullMeta ==
    File(json_dumps(Dict(<< <<"name", "fcos">>, <<"buildid", "35.20220101.0">>,
                            <<"summary", "s">>, <<"ostree-commit", "c0ffee">>,
                            <<"coreos-assembler.basearch", "aarch64">>,
                            <<"images", "@images">> >>)), "0644")
PlainMeta ==
    File(json_dumps(Dict(<< <<"name", "fcos">>, <<"buildid", "35.20220101.0">> >>)), "0644")
BareMeta == File(json_dumps(Dict(<< <<"ref", "r">> >>)), "0644")
LookupMetaFiles == {FullMeta, PlainMeta, BareMeta, GoodMeta}

InitLookups ==
    /\ indexed = TRUE
    /\ \E m \in LookupMetaFiles : files = DocFiles(GoodDoc, GoodDoc, GoodDoc, m)
    /\ built = {}
    /\ InitHandles

NextLookups ==
    \E h \in Caller :
        \/ Construct(h)
        \/ \E obj \in ProbedKeys, key \in Fields : GetMetaKey(h, obj, key)
        \/ \E obj \in SubObjs, key \in SubKeys, sub \in Subs : GetSubObj(h, obj, key, sub)
        \/ BuildId(h)
        \/ BuildName(h)
        \/ Summary(h)
        \/ OstreeCommit(h)
        \/ Basearch(h)
        \/ ImageNameBase(h)
        \/ \E n \in ImageNames : SetImageName(h, n)

SpecLookups == InitLookups /\ [][NextLookups]_vars

\* Two independent processes, each with its own handle on the same build
\* directory: one merges and flushes while the other re-reads meta.json.
Writers == {1}
Readers == {2}

NextProcs ==
    \/ \E h \in Handles : Construct(h)
    \/ \E h \in Writers :
        \/ \E u \in UpdateDocs : MetaAppend(h, u)
        \/ FlushOpen(h)
        \/ FlushDump(h)
        \/ FlushChmod(h)
        \/ FlushRename(h)
        \/ FlushReturn(h)
    \/ \E h \in Readers : RefreshMeta(h)

SpecProcs == Init /\ [][NextProcs]_vars

\* Two handles in one process, from construction to teardown; the first one
\* also flushes.
NextScratch ==
    \/ \E h \in Handles :
          \/ Construct(h)
          \/ Clean(h)
          \/ Del(h)
    \/ \E h \in Writers :
          \/ FlushOpen(h)
          \/ FlushDump(h)
          \/ FlushChmod(h)
          \/ FlushRename(h)
          \/ FlushReturn(h)

SpecScratch == Init /\ [][NextScratch]_vars

\* Two independent writers on the same build directory, each merging its own
\* field and flushing.
WriterDocs(h) == IF h = 1 THEN { <<<<"name", "y">>>> } ELSE { <<<<"ref", "r">>>> }

NextWriters ==
    \E h \in Handles :
        \/ Construct(h)
        \/ \E u \in WriterDocs(h) : MetaAppend(h, u)
        \/ FlushOpen(h)
        \/ FlushDump(h)
        \/ FlushChmod(h)
        \/ FlushRename(h)
        \/ FlushReturn(h)

SpecWriters == Init /\ [][NextWriters]_vars


\* ------------------------------------------------------------------ claims
Mem(h) == build_json[h]["meta"].items
StrKeys(items) == \A k \in DictKeys(items) : IsStrKey(k)

\* C1: a reader of meta.json that runs concurrently with a flush always reads
\* a complete document: every reload of a constructed handle succeeds, never
\* failing on an empty or partly written meta.json.
C1_FlushAtomic ==
    \A r \in Readers :
        (status[r] = "live" /\ op[r].name = "refresh_meta") => err[r] = NoErr

\* C2 as claimed: after merge(updates), flush, reload with no other writer in
\* between, the in-memory meta equals the meta.json of before the sequence
\* merged with updates.
C2_DiskMergedWithUpdates ==
    \A h \in Caller :
        hist[h].stage = "reloaded"
        => DictEq(Mem(h), DictUpdate(hist[h].disk0, hist[h].upd))

\* C2 amended: after merge(updates), flush, reload with no other writer in
\* between, the in-memory meta equals the in-memory meta of before the sequence
\* merged with updates, as JSON stores it (a non-str key becomes its str); it
\* equals the earlier meta.json merged with updates when that in-memory meta
\* equalled meta.json and updates has str keys only.
C2_MemMergedWithUpdates ==
    \A h \in Caller :
        hist[h].stage = "reloaded"
        => /\ Dict(Mem(h)) =
                json_loads(json_dumps(Dict(DictUpdate(hist[h].mem0, hist[h].upd)))).val
           /\ (DictEq(hist[h].mem0, hist[h].disk0) /\ StrKeys(hist[h].upd))
                => DictEq(Mem(h), DictUpdate(hist[h].disk0, hist[h].upd))

\* the sequence ran on a handle in step with the disk, and changed a field
C2_Witness ==
    \E h \in Caller :
        /\ hist[h].stage = "reloaded"
        /\ DictEq(hist[h].mem0, hist[h].disk0)
        /\ StrKeys(hist[h].upd)
        /\ ~DictEq(Mem(h), hist[h].disk0)

\* C3: merge(updates) then reload with no flush in between drops the updates:
\* the in-memory meta equals meta.json, and get / get_field on meta show the
\* disk's fields only.
C3_ReloadDropsUnflushed ==
    \A h \in Caller :
        hist[h].stage = "dropped"
        => /\ DiskMeta.ok
           /\ DictEq(Mem(h), DiskMeta.val.items)
           /\ get_obj(Cache(h), "meta").ret.val = DiskMeta.val
           /\ \A f \in Fields \cup DictKeys(hist[h].upd) :
                get_meta_key(Cache(h), "meta", f).ret.val =
                    IF f \in DictKeys(DiskMeta.val.items)
                    THEN Str(DictGet(DiskMeta.val.items, f)) ELSE None

\* a merge that changed the in-memory meta was dropped by the reload
C3_Witness ==
    \E h \in Caller :
        /\ hist[h].stage = "dropped"
        /\ ~DictEq(DictUpdate(hist[h].mem0, hist[h].upd), hist[h].mem0)
        /\ ~DictEq(DictUpdate(hist[h].mem0, hist[h].upd), Mem(h))


Loaded(k) == load_json(files[BuildFile(k)])
DocBad(k) == ~Loaded(k).ok \/ Loaded(k).val = None
\* the first document, in __init__'s order, that is null on disk while the
\* ones before it load
NullFound(k) ==
    /\ Loaded(k).ok /\ Loaded(k).val = None
    /\ \A i \in DOMAIN SlotOrder :
          (SlotOrder[i] = k) => \A j \in 1..(i - 1) : ~DocBad(SlotOrder[j])

\* C4: construction is all-or-nothing: a handle whose __init__ returned holds
\* four loaded, non-null documents, and __init__ never returns when one of the
\* four documents is missing, unparsable or null.
C4_AllOrNothing ==
    /\ [](\A h \in Caller :
            status[h] = "live" => \A k \in SlotKeys : build_json[h][k].kind = "dict")
    /\ [][\A h \in Caller :
            (status[h] = "new" /\ status'[h] # "new")
            => /\ (\E k \in SlotKeys : DocBad(k)) => status'[h] = "failed"
               /\ status'[h] = "live"
                    => \A k \in SlotKeys : build_json'[h][k] = Loaded(k).val]_vars

\* __init__ returned on a handle with its four documents loaded
C4_Witness ==
    \E h \in Caller :
        /\ status[h] = "live"
        /\ op[h].name = "__init__"
        /\ \A k \in SlotKeys : build_json[h][k].kind = "dict" /\ loads[h][k] = 1

\* C5: a document found null during construction makes __init__ raise
\* BuildError with a message that names the document's file.
C5_NullRaisesBuildError ==
    \A h \in Caller :
        (status[h] = "failed" /\ BuildsHas /\ \E k \in SlotKeys : NullFound(k))
        => /\ err[h].kind = "BuildError"
           /\ \E k \in SlotKeys : NullFound(k) /\ err[h].msg = BuildFile(k)

ArtifactExists(h) == image_name[h] \in built

\* C6: ensure_built calls the production hook only when the artifact file is
\* absent, and changes nothing when it is present; with the file present no
\* number of ensure_built calls runs the hook.
C6_EnsureBuiltOnlyIfAbsent ==
    [][\A h \in Caller :
         op'[h].name = "ensure_built"
         => /\ hookCalls'[h] # hookCalls[h] => ~ArtifactExists(h)
            /\ ArtifactExists(h)
                 => /\ UNCHANGED <<built, found_files, hookCalls>>
                    /\ err'[h] = NoErr]_vars

\* ensure_built returned on an existing artifact without a hook call
C6_Witness ==
    \E h \in Caller :
        /\ op[h].name = "ensure_built"
        /\ ArtifactExists(h)
        /\ hookCalls[h] = 0
        /\ err[h] = NoErr

\* C7: on a constructed handle commit, config and image are read from disk
\* once, meta once more per reload, and get(key) returns the instance the slot
\* caches.
C7_LoadOnceThenCached ==
    \A h \in Caller :
        status[h] = "live"
        => /\ \A k \in SlotKeys \ {"meta"} : loads[h][k] = 1 /\ inst[h][k] = 1
           /\ loads[h]["meta"] = 1 + reloads[h]
           /\ (op[h].name = "get_obj" /\ op[h].obj \in SlotKeys)
                => /\ ret[h].inst = inst[h][op[h].obj]
                   /\ ret[h].val = build_json[h][op[h].obj]

\* get("meta") after a reload returns the reloaded instance
C7_Witness ==
    \E h \in Caller :
        /\ status[h] = "live"
        /\ op[h] = Call("get_obj", "meta", "")
        /\ reloads[h] = 1
        /\ ret[h].inst = 2

ReadOnlyPaths == Paths \ {BuildFile("meta")}
ReadOps == {"get_obj", "get_meta_key", "meta_append", "refresh_meta"}

\* C8: merge, reload, get and get_field change no file; no operation changes
\* commitmeta.json, the config or the image provenance file; a finished flush
\* leaves no temporary file behind.
C8_DiskFrame ==
    /\ [][/\ \A p \in ReadOnlyPaths : files'[p] = files[p]
          /\ \A h \in Caller :
               op'[h].name \in ReadOps => UNCHANGED <<files, tmp, owner>>]_vars
    /\ [](\A h \in Caller : pc[h] = "idle" => ~tmp[h].exists)

\* a flush has replaced meta.json and nothing else
C8_Witness ==
    \E h \in Caller :
        /\ flushes[h] = 1
        /\ pc[h] = "idle"
        /\ files[BuildFile("meta")] # GoodMeta
        /\ \A p \in ReadOnlyPaths : files[p] = GoodDoc

\* C9: get(key) returns the cached document for commit, config, image and
\* meta, and raises BuildError for any other key.
C9_GetObj ==
    \A h \in Caller :
        op[h].name = "get_obj"
        => IF op[h].obj \in SlotKeys
           THEN /\ err[h] = NoErr
                /\ ret[h].val.kind = "dict"
                /\ ret[h].val = build_json[h][op[h].obj]
           ELSE err[h].kind = "BuildError" /\ ret[h] = NoRet

\* get("bogus") raised BuildError
C9_Witness ==
    \E h \in Caller : op[h] = Call("get_obj", "bogus", "") /\ err[h].kind = "BuildError"

\* C10: get_field(key, field) on a recognized key returns the stored value,
\* or None without raising when the field is absent, and changes no slot.
C10_GetMetaKey ==
    /\ [](\A h \in Caller :
            (op[h].name = "get_meta_key" /\ op[h].obj \in SlotKeys)
            => /\ err[h] = NoErr
               /\ ret[h].val =
                    IF op[h].key \in DictKeys(build_json[h][op[h].obj].items)
                    THEN Str(DictGet(build_json[h][op[h].obj].items, op[h].key))
                    ELSE None)
    /\ [][\A h \in Caller :
            op'[h].name = "get_meta_key"
            => UNCHANGED <<build_json, loads, inst>>]_vars

\* get_field("meta", "absent") returned None
C10_Witness ==
    \E h \in Caller :
        /\ op[h] = Call("get_meta_key", "meta", "absent")
        /\ err[h] = NoErr
        /\ ret[h] = NoRet

\* looked up by hand: the value of doc[key][sub], None where a level is missing
SubValue(items, key, sub) ==
    IF /\ key \in DictKeys(items)
       /\ DictGet(items, key) \in NestedValues
       /\ sub \in DictKeys(NestedItems(DictGet(items, key)))
    THEN Str(DictGet(NestedItems(DictGet(items, key)), sub))
    ELSE None

\* C11: the soft lookups never raise: get_field and get_nested return the
\* looked-up value, or None for an unrecognized document key, a missing field,
\* a missing subfield or a field that is not a mapping.
C11_SoftLookupsNeverRaise ==
    \A h \in Caller :
        /\ op[h].name = "get_meta_key"
             => /\ err[h] = NoErr
                /\ ret[h].val =
                     IF /\ op[h].obj \in SlotKeys
                        /\ op[h].key \in DictKeys(build_json[h][op[h].obj].items)
                     THEN Str(DictGet(build_json[h][op[h].obj].items, op[h].key))
                     ELSE None
        /\ op[h].name = "get_sub_obj"
             => /\ err[h] = NoErr
                /\ ret[h].val =
                     IF op[h].obj = MetaDoc
                     THEN SubValue(Mem(h), op[h].key, op[h].sub)
                     ELSE IF op[h].obj \in SlotKeys
                     THEN SubValue(build_json[h][op[h].obj].items, op[h].key, op[h].sub)
                     ELSE None

\* the file an artifact_meta call is asked to describe
AskedName(h) == IF op[h].obj = NoName THEN image_name[h] ELSE op[h].obj

\* C12: artifact_meta(name) describes the file named name: for every existing
\* build_dir/name the record has path = name and the digest and the byte
\* length of that file; with name omitted it describes build_dir/image_name.
C12_ArtifactMetaDescribesName ==
    \A h \in Caller :
        (op[h].name = "get_artifact_meta" /\ PathExists(AskedName(h)))
        => /\ err[h] = NoErr
           /\ ret[h].val.kind = "dict"
           /\ DictGet(ret[h].val.items, "path") = AskedName(h)
           /\ DictGet(ret[h].val.items, "sha256sum") = sha256sum_file(AskedName(h))
           /\ DictGet(ret[h].val.items, "size") = Len(FileBytes(AskedName(h)))

\* C13: once every flush under way has completed, meta.json holds the complete
\* document of the writer whose rename came last: not a mixture of two
\* writers' documents, not a truncated one.
C13_LastWriterWins ==
    ((\A h \in Handles : pc[h] = "idle") /\ lastRename.by # 0)
    => /\ files[BuildFile("meta")].exists
       /\ files[BuildFile("meta")].data = json_dumps(lastRename.data)

\* two flushes overlapped (the last rename replaced a file its writer still
\* had open), both have completed, and the two writers' documents differ
C13_Witness ==
    /\ \A h \in Handles : pc[h] = "idle" /\ flushes[h] = 1
    /\ lastRename.over # 0
    /\ lastRename.over # lastRename.by
    /\ ~DictEq(Mem(1), Mem(2))
    /\ files[BuildFile("meta")].data = json_dumps(build_json[lastRename.by]["meta"])

\* the handle exists and has allocated its scratch directory
HasScratch(h) == status[h] \in {"live", "failed"} /\ tmpdir[h] # ""

C15_BuildFailsOnlyWithHook ==
    [][\A h \in Caller :
         op'[h].name = "build_artifacts"
         => /\ hookCalls'[h] = hookCalls[h] + 1
            /\ ~hooked'[h].raises => err'[h] = NoErr
            /\ hooked'[h].raises => err'[h] = Err("HookError", "_build_artifacts")]_vars

\* build() returned normally from a hook that registered nothing
C15_Witness ==
    \E h \in Caller :
        /\ op[h].name = "build_artifacts"
        /\ ~hooked[h].raises
        /\ found_files[h] = <<>>
        /\ hookCalls[h] = 1
        /\ err[h] = NoErr

\* the meta field behind each derived accessor
AccessorField ==
    [build_id |-> "buildid", build_name |-> "name", summary |-> "summary",
     ostree_commit |-> "ostree-commit"]

\* the value meta stores under a field, None when the field is absent
MetaField(h, f) == IF f \in DictKeys(Mem(h)) THEN Str(DictGet(Mem(h), f)) ELSE None

\* C16: build_id, build_name, summary and ostree_commit return the value meta
\* stores under their field, and None when the field is absent; none raises
\* or returns a placeholder.
C16_AccessorsNullWhenAbsent ==
    \A h \in Caller :
        op[h].name \in DOMAIN AccessorField
        => /\ err[h] = NoErr
           /\ ret[h].val = MetaField(h, AccessorField[op[h].name])

\* C17: basearch returns the value meta stores under ckey("basearch"), that
\* is "coreos-assembler.basearch", and the host architecture only when that
\* field is absent; ckey prefixes its argument once.
C17_BasearchFromNamespacedKey ==
    /\ ckey("basearch") = "coreos-assembler.basearch"
    /\ \A h \in Caller :
          op[h].name = "basearch"
          => /\ err[h] = NoErr
             /\ ret[h].val =
                  IF ckey("basearch") \in DictKeys(Mem(h))
                  THEN MetaField(h, ckey("basearch"))
                  ELSE Str(BASEARCH)

\* C18: image_name_base returns "{name}-{id}-{platform}.{arch}" of the
\* handle's build name, build id, platform and architecture in every state,
\* also after image_name has been assigned.
C18_ImageNameBaseComposes ==
    \A h \in Caller :
        op[h].name = "image_name_base"
        => /\ err[h] = NoErr
           /\ ret[h].val =
                Str(build_name(Cache(h)).ret.val.s \o "-"
                    \o py_format(build_id(Cache(h)).ret.val) \o "-"
                    \o platform \o "."
                    \o basearch(Cache(h)).ret.val.s)

IsPrefix(a, b) == Len(a) <= Len(b) /\ a = SubSeq(b, 1, Len(a))

\* C19: the sequence obtained from artifacts() reflects the registry as it
\* was at the call: iterating it yields exactly the names registered then,
\* each once, and a registry change after the call neither alters nor breaks it.
C19_ArtifactsSnapshot ==
    \A h \in Caller :
        /\ gen[h].state # "failed"
        /\ gen[h].state = "running" => IsPrefix(gen[h].out, gen[h].snap)
        /\ gen[h].state = "done" => gen[h].out = gen[h].snap

\* C20: ensure_built keeps no record of earlier attempts: every call made
\* while build_dir/image_name is absent runs the production hook exactly once,
\* and when the hook returns without creating the file the artifact is still
\* absent afterwards, so the next call runs the hook again.
C20_EnsureBuiltRetries ==
    [][\A h \in Caller :
         (op'[h].name = "ensure_built" /\ image_name[h] # NoName /\ ~ArtifactExists(h))
         => /\ hookCalls'[h] = hookCalls[h] + 1
            /\ ~hooked'[h].creates => ~have_artifact(h)']_vars

\* ensure_built ran the hook a second time on this handle, the file still
\* being absent, and the hook again returned without creating it
C20_Witness ==
    \E h \in Caller :
        /\ op[h].name = "ensure_built"
        /\ hookCalls[h] = 2
        /\ ~hooked[h].creates /\ ~hooked[h].raises
        /\ ~ArtifactExists(h)
        /\ err[h] = NoErr

====
